---- MODULE Spec2Model ----
(***************************************************************************)
(* Model of the Tidal mix sync service (src/app.py): perform_sync, its     *)
(* persistent stores (tokens, config, sync status, PIN), the provider's    *)
(* playlist library, and the handlers that start a run or save the config. *)
(* Strings are sequences of one-character strings, so that name[4], name[:10],*)
(* date.fromisoformat and the substring test are computed, not assumed.    *)
(***************************************************************************)
EXTENDS Integers, Sequences, FiniteSets, TLC

(***************************************************************************)
(* Bounds of the model.                                                    *)
(***************************************************************************)
\* midnights passed, provider calls raised, access tokens refreshed and
\* config saves made during a behaviour, together
MaxEvents == 2
\* invocations of perform_sync during a behaviour
MaxRuns == 2

None == "None"

(***************************************************************************)
(* Strings and dates (Python str, datetime.date).                          *)
(***************************************************************************)
DigitChars == <<"0", "1", "2", "3", "4", "5", "6", "7", "8", "9">>

IsDigit(c) == \E k \in 1..10 : DigitChars[k] = c

DigitVal(c) == (CHOOSE k \in 1..10 : DigitChars[k] = c) - 1

Dig(k) == DigitChars[k + 1]

\* s[a:b] of Python, 0-based, end exclusive, clipped to the length of s
Slice(s, a, b) ==
    LET e == IF b < Len(s) THEN b ELSE Len(s)
    IN  IF a >= e THEN <<>> ELSE [k \in 1..(e - a) |-> s[a + k]]

\* s[i] of Python, 0-based
At(s, i) == s[i + 1]

\* sub in s
Contains(s, sub) ==
    \E k \in 0..(Len(s) - Len(sub)) : Slice(s, k, k + Len(sub)) = sub

IsLeap(y) == (y % 4 = 0) /\ ((y % 100 # 0) \/ (y % 400 = 0))

DaysInMonth(y, m) ==
    IF m = 2 THEN (IF IsLeap(y) THEN 29 ELSE 28)
    ELSE IF m \in {4, 6, 9, 11} THEN 30 ELSE 31

DaysBeforeYear(y) ==
    (y - 1) * 365 + ((y - 1) \div 4) - ((y - 1) \div 100) + ((y - 1) \div 400)

RECURSIVE DaysBeforeMonth(_, _)
DaysBeforeMonth(y, m) ==
    IF m = 1 THEN 0 ELSE DaysBeforeMonth(y, m - 1) + DaysInMonth(y, m - 1)

\* date(y, m, d).toordinal()
Ymd2Ord(y, m, d) == DaysBeforeYear(y) + DaysBeforeMonth(y, m) + d

\* the year, month and day of the date with proleptic Gregorian ordinal n
Ord2Ymd(n) ==
    LET y == CHOOSE yy \in ((n \div 366))..((n \div 365) + 1) :
                 yy >= 1 /\ DaysBeforeYear(yy) < n /\ n <= DaysBeforeYear(yy + 1)
        r == n - DaysBeforeYear(y)
        m == CHOOSE mm \in 1..12 :
                 DaysBeforeMonth(y, mm) < r /\ r <= DaysBeforeMonth(y, mm) + DaysInMonth(y, mm)
    IN  <<y, m, r - DaysBeforeMonth(y, m)>>

\* date.isoformat(): "YYYY-MM-DD"
IsoFormat(n) ==
    LET ymd == Ord2Ymd(n)
        y == ymd[1]
        m == ymd[2]
        d == ymd[3]
    IN  << Dig(y \div 1000), Dig((y \div 100) % 10), Dig((y \div 10) % 10), Dig(y % 10),
           "-", Dig(m \div 10), Dig(m % 10), "-", Dig(d \div 10), Dig(d % 10) >>

\* date.fromisoformat(s) for a str s: the date's ordinal, or ValueError raised
ValueError == [raised |-> TRUE]

FromIsoFormat(s) ==
    IF /\ Len(s) = 10
       /\ At(s, 4) = "-" /\ At(s, 7) = "-"
       /\ \A i \in {0, 1, 2, 3, 5, 6, 8, 9} : IsDigit(At(s, i))
    THEN LET y == DigitVal(At(s, 0)) * 1000 + DigitVal(At(s, 1)) * 100
                  + DigitVal(At(s, 2)) * 10 + DigitVal(At(s, 3))
             m == DigitVal(At(s, 5)) * 10 + DigitVal(At(s, 6))
             d == DigitVal(At(s, 8)) * 10 + DigitVal(At(s, 9))
         IN  IF y >= 1 /\ m \in 1..12 /\ d >= 1 /\ d <= DaysInMonth(y, m)
             THEN [raised |-> FALSE, value |-> Ymd2Ord(y, m, d)]
             ELSE ValueError
    ELSE ValueError

(***************************************************************************)
(* Literals of the program and of the examples.                            *)
(***************************************************************************)
\* 'Auto-synced', the marker the retention scan looks for (app.py line 156)
AutoSynced == <<"A", "u", "t", "o", "-", "s", "y", "n", "c", "e", "d">>

\* f"Auto-synced from Tidal", the description of a created playlist (line 140)
CreatedDescription ==
    AutoSynced \o <<" ", "f", "r", "o", "m", " ", "T", "i", "d", "a", "l">>

Foo == <<"F", "o", "o">>
Bar == <<"B", "a", "r">>
Space == <<" ">>

D20240301 == <<"2", "0", "2", "4", "-", "0", "3", "-", "0", "1">>
D20240302 == <<"2", "0", "2", "4", "-", "0", "3", "-", "0", "2">>
D20240303 == <<"2", "0", "2", "4", "-", "0", "3", "-", "0", "3">>
D20240310 == <<"2", "0", "2", "4", "-", "0", "3", "-", "1", "0">>

\* the day the behaviours start on: 2024-03-10
Day0 == Ymd2Ord(2024, 3, 10)

(***************************************************************************)
(* The provider's mixes page: session.mixes().categories.  A category or   *)
(* an item is a record; hasattr(x, "f") is "f" \in DOMAIN x.               *)
(***************************************************************************)
HasAttr(x, f) == f \in DOMAIN x

MixA == [id |-> "mixA", title |-> Foo, tracks |-> <<"t1", "t2", "t3">>]
MixB == [id |-> "mixB", title |-> Bar, tracks |-> <<"t4">>]

Catalog == << [title |-> "For you", items |-> <<MixA>>],
              [title |-> "Header"],
              [title |-> "More", items |-> <<MixB>>] >>

\* the items of all categories that have items, in order (lines 114-116)
RECURSIVE Flatten(_)
Flatten(cats) ==
    IF cats = <<>> THEN <<>>
    ELSE (IF HasAttr(Head(cats), "items") THEN Head(cats).items ELSE <<>>)
         \o Flatten(Tail(cats))

\* BuildMixes keeping the first item of an id
RECURSIVE BuildMixesFirstWins(_)
BuildMixesFirstWins(items) ==
    IF items = <<>> THEN <<>>
    ELSE LET n == Len(items)
             rest == BuildMixesFirstWins(SubSeq(items, 1, n - 1))
             item == items[n]
         IN  IF HasAttr(item, "id") THEN rest @@ (item.id :> item) ELSE rest

\* all_mixes of perform_sync: item.id -> item, a later item replacing an
\* earlier one with the same id (lines 113-118)
RECURSIVE BuildMixes(_)
BuildMixes(items) ==
    IF items = <<>> THEN <<>>
    ELSE LET n == Len(items)
             rest == BuildMixes(SubSeq(items, 1, n - 1))
             item == items[n]
         IN  IF HasAttr(item, "id") THEN (item.id :> item) @@ rest ELSE rest

AllMixes(cats) == BuildMixes(Flatten(cats))

\* title.lower() (line 279), for the letters of the titles of the model
Lower(title) ==
    LET low == [c \in {"D", "A", "I", "L", "Y", "F", "B", "M"} |->
                   CASE c = "D" -> "d" [] c = "A" -> "a" [] c = "I" -> "i"
                     [] c = "L" -> "l" [] c = "Y" -> "y" [] c = "F" -> "f"
                     [] c = "B" -> "b" [] c = "M" -> "m"]
    IN  [k \in 1..Len(title) |-> IF title[k] \in DOMAIN low THEN low[title[k]] ELSE title[k]]

Daily == <<"d", "a", "i", "l", "y">>

\* daily_ids of check_tidal_auth (lines 274-280): the ids of the items that
\* have an id and "daily" in their lowered title, in order; an item without
\* a title has the title ""
RECURSIVE DailyIds(_)
DailyIds(items) ==
    IF items = <<>> THEN <<>>
    ELSE LET item == Head(items)
             title == IF HasAttr(item, "title") THEN item.title ELSE <<>>
         IN  (IF Contains(Lower(title), Daily) /\ HasAttr(item, "id") THEN <<item.id>> ELSE <<>>)
             \o DailyIds(Tail(items))

\* mixes pages with daily mixes, an item without an id, an item without a
\* title, and two items of one id
MixD == [id |-> "mixD", title |-> <<"M", "y", " ", "D", "a", "i", "l", "y">>, tracks |-> <<"t5">>]
MixA2 == [id |-> "mixA", title |-> <<"D", "A", "I", "L", "Y", " ", "A">>, tracks |-> <<"t9">>]
NoId == [title |-> <<"d", "a", "i", "l", "y", " ", "t", "i", "p">>]
NoTitle == [id |-> "mixN", tracks |-> <<"t6">>]

CatalogDaily == << [title |-> "For you", items |-> <<MixA, NoId, MixD>>],
                   [title |-> "Header"],
                   [title |-> "More", items |-> <<NoTitle, MixB>>] >>

CatalogTwice == << [title |-> "For you", items |-> <<MixA, MixB>>],
                   [title |-> "Header"],
                   [title |-> "Again", items |-> <<NoId, MixA2>>] >>

Catalogs == {Catalog, CatalogDaily, CatalogTwice}

(***************************************************************************)
(* Files of DATA_DIR: a file is absent or holds one JSON value.            *)
(***************************************************************************)
Absent == [exists |-> FALSE]

File(v) == [exists |-> TRUE, data |-> v]

\* DEFAULT_CONFIG (lines 42-45)
DEFAULT_CONFIG == [selected_mixes |-> <<>>, retention_days |-> 7]

\* get_config (lines 54-55)
GetConfig(file) == IF file.exists THEN file.data ELSE DEFAULT_CONFIG

\* Clamp with the upper limit forgotten: max(1, int(v))
ClampLowerOnly(v) == IF v > 1 THEN v ELSE 1

\* max(1, min(365, int(v))) of save_config_api (line 435)
Clamp(v) ==
    LET lo == IF v < 365 THEN v ELSE 365
    IN  IF lo > 1 THEN lo ELSE 1

\* check_auth (lines 64-68)
CheckAuth(pinFile, cookie) ==
    IF ~pinFile.exists THEN TRUE ELSE cookie = pinFile.data

(***************************************************************************)
(* The retention scan's test of one playlist (lines 152-156).              *)
(***************************************************************************)
\* len(name) >= 10 and name[4] == '-' and name[7] == '-'
HasDateShape(name) ==
    Len(name) >= 10 /\ At(name, 4) = "-" /\ At(name, 7) = "-"

\* getattr(pl, 'description', '') or '': a playlist whose description is
\* None or missing is a record without the field
DescriptionOf(pl) ==
    IF HasAttr(pl, "description") THEN pl.description ELSE <<>>

\* Expired with pl_date <= cutoff
ExpiredInclusive(pl, cutoff) ==
    /\ HasDateShape(pl.name)
    /\ LET pl_date == FromIsoFormat(Slice(pl.name, 0, 10))
       IN  /\ ~pl_date.raised
           /\ pl_date.value <= cutoff
           /\ Contains(DescriptionOf(pl), AutoSynced)

\* Expired without the test of the description
ExpiredUnmarked(pl, cutoff) ==
    /\ HasDateShape(pl.name)
    /\ LET pl_date == FromIsoFormat(Slice(pl.name, 0, 10))
       IN  /\ ~pl_date.raised
           /\ pl_date.value < cutoff

\* whether the scan deletes pl: the shape test, the parse (a ValueError is
\* passed over), the date before the cutoff and the marker
Expired(pl, cutoff) ==
    /\ HasDateShape(pl.name)
    /\ LET pl_date == FromIsoFormat(Slice(pl.name, 0, 10))
       IN  /\ ~pl_date.raised
           /\ pl_date.value < cutoff
           /\ Contains(DescriptionOf(pl), AutoSynced)

(***************************************************************************)
(* State.                                                                  *)
(***************************************************************************)
VARIABLES
    clock,      \* date.today(), as an ordinal
    utc,        \* datetime.utcnow(): the number of status reports written so far
    tokens,     \* TOKENS_FILE
    config,     \* CONFIG_FILE
    pin,        \* PIN_FILE
    status,     \* SYNC_STATUS_FILE
    library,    \* the provider's playlists of the user, in listing order
    nextId,     \* the id the provider gives the next created playlist
    pending,    \* PENDING_FILE
    catalog,    \* the provider's mixes page: session.mixes().categories
    run,        \* the locals of the perform_sync call of each thread
    events,     \* midnights passed, provider calls raised, tokens refreshed, config saves made
    runs        \* perform_sync calls started

vars == <<clock, utc, tokens, config, pin, pending, catalog, status, library, nextId, run,
          events, runs>>

\* the event loop serving the HTTP handlers, and the scheduler's worker thread
Procs == {"http", "sched"}

AccessTokens == {"tokA", "tokB"}

ProviderError == "provider error"

Playlist(id, name, description) ==
    [id |-> id, name |-> name, description |-> description,
     tracks |-> <<>>, favorite |-> FALSE]

\* a playlist the provider reports without a description
BarePlaylist(id, name) ==
    [id |-> id, name |-> name, tracks |-> <<>>, favorite |-> FALSE]

\* the examples of the specification: the two snapshots around the cutoff, a
\* user's dated playlist without the marker, and names that are no dates
LibraryOld ==
    << BarePlaylist(1, <<"F", "a", "v", "o", "r", "i", "t", "e", "s">>),
       Playlist(2, D20240301 \o <<" ", "M", "y", " ", "P", "a", "r", "t", "y",
                                  " ", "M", "i", "x">>, <<"m", "i", "n", "e">>),
       Playlist(3, <<"2", "4", "-", "3", "-", "1", " ", "x">>, CreatedDescription),
       Playlist(4, <<"2", "0", "2", "4", "-", "1", "3", "-", "0", "1", " ", "F", "o", "o">>,
                CreatedDescription),
       Playlist(5, D20240302 \o Space \o Foo, CreatedDescription),
       Playlist(6, D20240303 \o Space \o Foo, CreatedDescription) >>

\* today's snapshot of Foo exists already
LibraryToday ==
    << Playlist(1, D20240310 \o Space \o Foo, CreatedDescription),
       Playlist(2, D20240302 \o Space \o Bar, CreatedDescription),
       Playlist(3, <<"2", "0", "2", "4", "/", "0", "3", "/", "0", "1", " ", "F", "o", "o">>,
                CreatedDescription) >>

InitLibraries == {LibraryOld, LibraryToday}

\* the JSON bodies of POST /api/config the model tries: both keys, one key, a
\* retention below and above the allowed range, an id selected twice
ConfigRequests ==
    { [selected_mixes |-> <<"mixA", "mixB">>, retention_days |-> 0],
      [selected_mixes |-> <<"mixA", "mixA">>, retention_days |-> 9000],
      [selected_mixes |-> <<>>],
      [retention_days |-> 8] }

\* the config files the behaviours start from: none, and two that earlier
\* saves have written
InitConfigs ==
    { Absent,
      File([selected_mixes |-> <<"mixA", "mixB">>, retention_days |-> 7]),
      File([selected_mixes |-> <<"mixX", "mixA">>, retention_days |-> 1]) }

Pins == {"1234", "0000"}

Cookies == {None, "1234", "0000"}

IdleRun ==
    [pc |-> "idle", trigger |-> "", selected |-> <<>>, retention |-> 0,
     all_mixes |-> <<>>, today |-> <<>>, existing_names |-> {}, idx |-> 0,
     results |-> <<>>, title |-> <<>>, name |-> <<>>, tracks |-> <<>>,
     playlist |-> 0, cutoff |-> 0, scan |-> <<>>, j |-> 0, deleted |-> <<>>]

Init ==
    /\ clock = Day0
    /\ utc = 0
    /\ tokens \in {Absent, File([access_token |-> "tokA"])}
    /\ config \in InitConfigs
    /\ pin = File("1234")
    /\ pending = Absent
    /\ catalog = Catalog
    /\ status = Absent
    /\ library \in InitLibraries
    /\ nextId = Len(library) + 1
    /\ run = [p \in Procs |-> IdleRun]
    /\ events = 0
    /\ runs = 0

(***************************************************************************)
(* save_sync_status (lines 86-94).                                         *)
(***************************************************************************)
Report(stamp, trigger, results, deleted, error) ==
    [last_sync |-> stamp, trigger |-> trigger, results |-> results,
     deleted_count |-> Len(deleted), error |-> error]

\* SaveSyncStatus updating the stored report key by key, the trigger only
\* when no report is stored yet
SaveSyncStatusKeepTrigger(trigger, results, deleted, error) ==
    /\ utc' = utc + 1
    /\ status' = File(Report(utc + 1, IF status.exists THEN status.data.trigger ELSE trigger,
                             results, deleted, error))

\* save_json (lines 51-52) is one write_text call: the file goes from one
\* whole value to the next
SaveSyncStatus(trigger, results, deleted, error) ==
    /\ utc' = utc + 1
    /\ status' = File(Report(utc + 1, trigger, results, deleted, error))

\* a provider call raises: within the budget of the model
MayFail == events < MaxEvents

Raise == events' = events + 1

Index(lib, id) == {k \in 1..Len(lib) : lib[k].id = id}

Remove(lib, id) == SelectSeq(lib, LAMBDA pl : pl.id # id)

(***************************************************************************)
(* perform_sync (lines 97-165), one step per provider call or file access. *)
(***************************************************************************)
\* the run of thread p returns or is ended by an exception: its locals are gone
Return(p) == run' = [run EXCEPT ![p] = IdleRun]

\* an exception no handler of perform_sync catches leaves it: nothing is saved
Abort(p) ==
    /\ MayFail
    /\ Raise
    /\ Return(p)
    /\ UNCHANGED <<clock, utc, tokens, config, pin, pending, catalog, status, library, nextId, runs>>

\* config.get("selected_mixes", []) and config.get("retention_days", 7)
SelectedOf(cfg) == IF HasAttr(cfg, "selected_mixes") THEN cfg.selected_mixes ELSE <<>>

RetentionOf(cfg) == IF HasAttr(cfg, "retention_days") THEN cfg.retention_days ELSE 7

\* what get_session (lines 70-83) can do: return None (no tokens, or
\* load_oauth_session returns False), return a session whose access token is
\* the stored or a refreshed one, or let load_oauth_session's exception through
NoSession == [kind |-> "none"]

SessionRaises == [kind |-> "raises"]

Session(tok) == [kind |-> "session", access_token |-> tok]

GetSession(tokensFile) ==
    IF ~tokensFile.exists THEN {NoSession}
    ELSE {NoSession, SessionRaises} \cup {Session(tok) : tok \in AccessTokens}

\* ReadConfig without the test of line 108: an empty selection goes on
ReadConfigNoTest(p, trigger) ==
    /\ run' = [run EXCEPT ![p] = [IdleRun EXCEPT !.pc = "resolve",
                                                 !.trigger = trigger,
                                                 !.selected = SelectedOf(GetConfig(config)),
                                                 !.retention = RetentionOf(GetConfig(config))]]
    /\ UNCHANGED <<utc, status>>

\* lines 104-110: the config is read, and an empty selection ends the run
ReadConfig(p, trigger) ==
    LET cfg == GetConfig(config)
        selected == SelectedOf(cfg)
        retention == RetentionOf(cfg)
    IN  IF selected = <<>>
        THEN /\ SaveSyncStatus(trigger, <<>>, <<>>, "No mixes selected")
             /\ UNCHANGED run
        ELSE /\ run' = [run EXCEPT ![p] = [IdleRun EXCEPT !.pc = "resolve",
                                                          !.trigger = trigger,
                                                          !.selected = selected,
                                                          !.retention = retention]]
             /\ UNCHANGED <<utc, status>>

\* BeginSync with the two tests in the other order: the selection is tested
\* before the session
BeginSyncSelectionFirst(p, trigger, session) ==
    /\ run[p].pc = "idle"
    /\ runs < MaxRuns
    /\ runs' = runs + 1
    /\ session \in GetSession(tokens)
    /\ IF session.kind = "raises"
       THEN /\ MayFail
            /\ Raise
            /\ UNCHANGED <<utc, status, tokens, run>>
       ELSE IF SelectedOf(GetConfig(config)) = <<>>
       THEN /\ SaveSyncStatus(trigger, <<>>, <<>>, "No mixes selected")
            /\ UNCHANGED <<tokens, run, events>>
       ELSE IF session.kind = "none"
       THEN /\ SaveSyncStatus(trigger, <<>>, <<>>, "Not connected to Tidal")
            /\ UNCHANGED <<tokens, run, events>>
       ELSE /\ UNCHANGED <<tokens, events>>
            /\ ReadConfig(p, trigger)
    /\ UNCHANGED <<clock, config, pin, pending, catalog, library, nextId>>

\* lines 99-110: perform_sync up to its first call of the provider, given
\* what get_session does
BeginSync(p, trigger, session) ==
    /\ run[p].pc = "idle"
    /\ runs < MaxRuns
    /\ runs' = runs + 1
    /\ session \in GetSession(tokens)
    /\ IF session.kind = "none"
       THEN /\ SaveSyncStatus(trigger, <<>>, <<>>, "Not connected to Tidal")
            /\ UNCHANGED <<tokens, run, events>>
       ELSE IF session.kind = "raises"
       THEN /\ MayFail
            /\ Raise
            /\ UNCHANGED <<utc, status, tokens, run>>
       ELSE /\ IF session.access_token # tokens.data.access_token
               THEN /\ events < MaxEvents
                    /\ events' = events + 1
                    /\ tokens' = File([access_token |-> session.access_token])
               ELSE UNCHANGED <<tokens, events>>
            /\ ReadConfig(p, trigger)
    /\ UNCHANGED <<clock, config, pin, pending, catalog, library, nextId>>

\* lines 112-121: session.mixes() answers; all_mixes and today are computed
Resolve(p) ==
    /\ run[p].pc = "resolve"
    /\ run' = [run EXCEPT ![p] = [@ EXCEPT !.pc = "list",
                                           !.all_mixes = AllMixes(catalog),
                                           !.today = IsoFormat(clock)]]
    /\ UNCHANGED <<clock, utc, tokens, config, pin, pending, catalog, status, library, nextId, events, runs>>

\* line 114: session.mixes() raises
ResolveFails(p) ==
    /\ run[p].pc = "resolve"
    /\ Abort(p)

\* line 124: session.user.playlists() answers
ListExisting(p) ==
    /\ run[p].pc = "list"
    /\ run' = [run EXCEPT ![p] = [@ EXCEPT !.pc = "mix",
                                           !.idx = 1,
                                           !.existing_names =
                                               {library[k].name : k \in 1..Len(library)}]]
    /\ UNCHANGED <<clock, utc, tokens, config, pin, pending, catalog, status, library, nextId, events, runs>>

\* line 124: session.user.playlists() raises
ListExistingFails(p) ==
    /\ run[p].pc = "list"
    /\ Abort(p)

\* the three shapes of an entry of results (lines 129, 136, 143, 145)
Failed(mix_id, error) == [mix_id |-> mix_id, error |-> error]

Skipped(title, name) == [mix |-> title, playlist |-> name, skipped |-> "Already exists"]

Created(title, name, tracks) ==
    [mix |-> title, playlist |-> name, tracks |-> Len(tracks), success |-> TRUE]

\* NextMix with results.insert(0, result) in the place of results.append(result)
NextMixPrepend(r, result) ==
    IF r.idx < Len(r.selected)
    THEN [r EXCEPT !.pc = "mix", !.idx = @ + 1, !.results = <<result>> \o @]
    ELSE [r EXCEPT !.pc = "scanlist", !.results = <<result>> \o @,
                   !.cutoff = clock - r.retention, !.deleted = <<>>]

\* the locals after results.append(result) for selected[idx]: the loop goes
\* on to the next id, or ends and the cutoff is computed (lines 126, 148-149)
NextMix(r, result) ==
    IF r.idx < Len(r.selected)
    THEN [r EXCEPT !.pc = "mix", !.idx = @ + 1, !.results = Append(@, result)]
    ELSE [r EXCEPT !.pc = "scanlist", !.results = Append(@, result),
                   !.cutoff = clock - r.retention, !.deleted = <<>>]

\* PlaylistName with the date of the moment in the place of today
PlaylistNameNow(today, title) == IsoFormat(clock) \o Space \o title

\* f"{today} {title}" (line 133)
PlaylistName(today, title) == today \o Space \o title

\* getattr(mix, "title", "Mix") (line 132)
TitleOf(mix) == IF HasAttr(mix, "title") THEN mix.title ELSE <<"M", "i", "x">>

\* the duplicate guard looking for the title instead of the dated name
AlreadyExistsByTitle(name, existing_names) == Slice(name, 11, Len(name)) \in existing_names

\* whether the duplicate guard of line 135 passes name over
AlreadyExists(name, existing_names) == name \in existing_names

\* lines 127-139: the lookup, the duplicate guard and mix.items()
MixStep(p) ==
    /\ run[p].pc = "mix"
    /\ LET r == run[p]
           mix_id == r.selected[r.idx]
       IN  IF mix_id \notin DOMAIN r.all_mixes
           THEN /\ run' = [run EXCEPT ![p] = NextMix(r, Failed(mix_id, "Not found"))]
                /\ UNCHANGED events
           ELSE LET mix == r.all_mixes[mix_id]
                    title == TitleOf(mix)
                    name == PlaylistName(r.today, title)
                IN  IF AlreadyExists(name, r.existing_names)
                    THEN /\ run' = [run EXCEPT ![p] = NextMix(r, Skipped(title, name))]
                         /\ UNCHANGED events
                    ELSE \/ /\ run' = [run EXCEPT ![p] = [r EXCEPT !.pc = "create",
                                                                   !.title = title,
                                                                   !.name = name,
                                                                   !.tracks = mix.tracks]]
                            /\ UNCHANGED events
                         \/ /\ MayFail
                            /\ Raise
                            /\ run' = [run EXCEPT ![p] = NextMix(r, Failed(mix_id, ProviderError))]
    /\ UNCHANGED <<clock, utc, tokens, config, pin, pending, catalog, status, library, nextId, runs>>

\* MixFails without the try of line 131: the exception leaves perform_sync
MixFailsUncaught(p) ==
    /\ run[p].pc \in {"create", "add", "favorite"}
    /\ Abort(p)

\* the except clause of line 144 for the call the run is at
MixFails(p) ==
    /\ run[p].pc \in {"create", "add", "favorite"}
    /\ \/ MayFail /\ Raise
       \/ /\ run[p].pc \in {"add", "favorite"}
          /\ Index(library, run[p].playlist) = {}
          /\ UNCHANGED events
    /\ run' = [run EXCEPT ![p] = NextMix(@, Failed(@.selected[@.idx], ProviderError))]
    /\ UNCHANGED <<clock, utc, tokens, config, pin, pending, catalog, status, library, nextId, runs>>

\* CreatePlaylist asking the provider first: a playlist that has the name by
\* now is taken over in the place of a new one
CreatePlaylistIfAbsent(p) ==
    /\ run[p].pc = "create"
    /\ LET same == {k \in 1..Len(library) : library[k].name = run[p].name}
       IN  IF same = {}
           THEN /\ library' = Append(library, Playlist(nextId, run[p].name, CreatedDescription))
                /\ nextId' = nextId + 1
                /\ run' = [run EXCEPT ![p] = [@ EXCEPT !.pc = "add", !.playlist = nextId]]
           ELSE /\ UNCHANGED <<library, nextId>>
                /\ run' = [run EXCEPT ![p] = [@ EXCEPT !.pc = "add",
                                                       !.playlist = library[CHOOSE k \in same : TRUE].id]]
    /\ UNCHANGED <<clock, utc, tokens, config, pin, pending, catalog, status, events, runs>>

\* line 140: session.user.create_playlist(name, "Auto-synced from Tidal")
CreatePlaylist(p) ==
    /\ run[p].pc = "create"
    /\ library' = Append(library, Playlist(nextId, run[p].name, CreatedDescription))
    /\ nextId' = nextId + 1
    /\ run' = [run EXCEPT ![p] = [@ EXCEPT !.pc = "add", !.playlist = nextId]]
    /\ UNCHANGED <<clock, utc, tokens, config, pin, pending, catalog, status, events, runs>>

\* line 141: playlist.add([t.id for t in tracks])
AddTracks(p) ==
    /\ run[p].pc = "add"
    /\ \E k \in Index(library, run[p].playlist) :
          library' = [library EXCEPT ![k].tracks = @ \o run[p].tracks]
    /\ run' = [run EXCEPT ![p] = [@ EXCEPT !.pc = "favorite"]]
    /\ UNCHANGED <<clock, utc, tokens, config, pin, pending, catalog, status, nextId, events, runs>>

\* Favorite without the call of line 142: the outcome is recorded at once
FavoriteLeftOut(p) ==
    /\ run[p].pc = "favorite"
    /\ run' = [run EXCEPT ![p] = NextMix(@, Created(@.title, @.name, @.tracks))]
    /\ UNCHANGED <<clock, utc, tokens, config, pin, pending, catalog, status, library, nextId, events, runs>>

\* lines 142-143: session.user.favorites.add_playlist(playlist.id)
Favorite(p) ==
    /\ run[p].pc = "favorite"
    /\ \E k \in Index(library, run[p].playlist) :
          library' = [library EXCEPT ![k].favorite = TRUE]
    /\ run' = [run EXCEPT ![p] = NextMix(@, Created(@.title, @.name, @.tracks))]
    /\ UNCHANGED <<clock, utc, tokens, config, pin, pending, catalog, status, nextId, events, runs>>

\* lines 164-165: the report of a run that got through the loop
Finish(p, deleted) ==
    /\ SaveSyncStatus(run[p].trigger, run[p].results, deleted, None)
    /\ Return(p)

\* the loop of lines 151-160 from playlist j on, up to the first playlist it
\* deletes: the index of that playlist, or Len(scan) + 1 when there is none
RECURSIVE SkipKept(_, _, _)

\* SkipKept without the try of lines 154-160: the ValueError of a name that
\* is no date reaches the except of line 161, which gives the scan up
SkipKeptNoInnerTry(scan, j, cutoff) ==
    IF j > Len(scan) THEN j
    ELSE IF Expired(scan[j], cutoff) THEN j
    ELSE IF HasDateShape(scan[j].name) /\ FromIsoFormat(Slice(scan[j].name, 0, 10)).raised
         THEN Len(scan) + 1
    ELSE SkipKept(scan, j + 1, cutoff)

SkipKept(scan, j, cutoff) ==
    IF j > Len(scan) THEN j
    ELSE IF Expired(scan[j], cutoff) THEN j
    ELSE SkipKept(scan, j + 1, cutoff)

\* line 151: session.user.playlists() answers, and the loop runs up to its
\* first pl.delete(), or to its end and the report
ScanList(p) ==
    /\ run[p].pc = "scanlist"
    /\ LET j == SkipKept(library, 1, run[p].cutoff)
       IN  IF j > Len(library)
           THEN Finish(p, <<>>)
           ELSE /\ run' = [run EXCEPT ![p] = [@ EXCEPT !.pc = "scan", !.scan = library, !.j = j]]
                /\ UNCHANGED <<utc, status>>
    /\ UNCHANGED <<clock, tokens, config, pin, pending, catalog, library, nextId, events, runs>>

\* lines 157-158: pl.delete() answers, and the loop runs on to its next
\* pl.delete(), or to its end and the report
ScanDelete(p) ==
    /\ run[p].pc = "scan"
    /\ LET r == run[p]
           pl == r.scan[r.j]
           deleted == Append(r.deleted, pl.name)
           j == SkipKept(r.scan, r.j + 1, r.cutoff)
       IN  /\ Index(library, pl.id) # {}
           /\ library' = Remove(library, pl.id)
           /\ IF j > Len(r.scan)
              THEN Finish(p, deleted)
              ELSE /\ run' = [run EXCEPT ![p] = [r EXCEPT !.j = j, !.deleted = deleted]]
                   /\ UNCHANGED <<utc, status>>
    /\ UNCHANGED <<clock, tokens, config, pin, pending, catalog, nextId, events, runs>>

\* ScanFails without the try of line 150: the exception leaves perform_sync
ScanFailsUncaught(p) ==
    /\ run[p].pc \in {"scanlist", "scan"}
    /\ Abort(p)

\* lines 151, 157, 161-162: the call the scan is at raises (a playlist that is
\* gone cannot be deleted); the scan is given up and the report is saved
ScanFails(p) ==
    /\ run[p].pc \in {"scanlist", "scan"}
    /\ \/ MayFail /\ Raise
       \/ /\ run[p].pc = "scan"
          /\ Index(library, run[p].scan[run[p].j].id) = {}
          /\ UNCHANGED events
    /\ Finish(p, run[p].deleted)
    /\ UNCHANGED <<clock, tokens, config, pin, pending, catalog, library, nextId, runs>>

(***************************************************************************)
(* The entry points and the other handlers.                                *)
(***************************************************************************)
\* the event loop runs one handler at a time, and perform_sync blocks it
HttpIdle == run["http"].pc = "idle"

\* no perform_sync call is in progress
Quiet == \A p \in Procs : run[p].pc = "idle"

\* GET /sync (lines 554-560)
Sync(cookie) ==
    /\ HttpIdle
    /\ IF CheckAuth(pin, cookie)
       THEN \E session \in GetSession(tokens) : BeginSync("http", "manual", session)
       ELSE UNCHANGED vars

\* the CRON_SECRET of a deployment that has one
CronSecret == "s3cret"

\* what os.getenv("CRON_SECRET") gives a request: nothing, an empty value or
\* the secret
CronSecrets == {None, "", CronSecret}

\* the key parameters of GET /cron/sync the model tries
CronKeys == {None, "s3cret", "guess"}

\* CronSync without the test of cron_key itself: the key is compared only
CronSyncKeyOnly(cron_key, key) ==
    /\ HttpIdle
    /\ IF key # cron_key
       THEN UNCHANGED vars
       ELSE \E session \in GetSession(tokens) : BeginSync("http", "cron", session)

\* GET /cron/sync (lines 544-551)
CronSync(cron_key, key) ==
    /\ HttpIdle
    /\ IF cron_key \in {None, ""} \/ key # cron_key
       THEN UNCHANGED vars
       ELSE \E session \in GetSession(tokens) : BeginSync("http", "cron", session)

\* run_scheduled_sync (lines 168-170)
ScheduledSync == \E session \in GetSession(tokens) : BeginSync("sched", "scheduled", session)

\* SaveConfigApi starting from DEFAULT_CONFIG in the place of get_config()
SaveConfigApiFromDefault(cookie, data) ==
    /\ HttpIdle
    /\ IF CheckAuth(pin, cookie)
       THEN /\ events < MaxEvents
            /\ events' = events + 1
            /\ LET old == DEFAULT_CONFIG
                   sel == IF HasAttr(data, "selected_mixes")
                          THEN [old EXCEPT !.selected_mixes = data.selected_mixes]
                          ELSE old
                   new == IF HasAttr(data, "retention_days")
                          THEN [sel EXCEPT !.retention_days = Clamp(data.retention_days)]
                          ELSE sel
               IN  config' = File(new)
            /\ UNCHANGED <<clock, utc, tokens, pin, pending, catalog, status, library, nextId, run, runs>>
       ELSE UNCHANGED vars

\* POST /api/config (lines 424-437)
SaveConfigApi(cookie, data) ==
    /\ HttpIdle
    /\ IF CheckAuth(pin, cookie)
       THEN /\ events < MaxEvents
            /\ events' = events + 1
            /\ LET old == GetConfig(config)
                   sel == IF HasAttr(data, "selected_mixes")
                          THEN [old EXCEPT !.selected_mixes = data.selected_mixes]
                          ELSE old
                   new == IF HasAttr(data, "retention_days")
                          THEN [sel EXCEPT !.retention_days = Clamp(data.retention_days)]
                          ELSE sel
               IN  config' = File(new)
            /\ UNCHANGED <<clock, utc, tokens, pin, pending, catalog, status, library, nextId, run, runs>>
       ELSE UNCHANGED vars

\* LoginSubmit storing the PIN of the form whether or not one is stored
LoginSubmitOverwrite(form_pin) ==
    /\ HttpIdle
    /\ IF form_pin # "" THEN pin' = File(form_pin) ELSE UNCHANGED pin
    /\ UNCHANGED <<clock, utc, tokens, config, pending, catalog, status, library, nextId, run, events, runs>>

\* the pin fields of POST /login the model tries, the empty one among them
FormPins == Pins \cup {""}

\* POST /login (lines 212-233): the first PIN submitted is stored, an empty
\* one never
LoginSubmit(form_pin) ==
    /\ HttpIdle
    /\ IF form_pin # "" /\ ~pin.exists THEN pin' = File(form_pin) ELSE UNCHANGED pin
    /\ UNCHANGED <<clock, utc, tokens, config, pending, catalog, status, library, nextId, run, events, runs>>

\* the record home stores for a device authorization it has begun
PendingLogin == [device_code |-> "dc1", user_code |-> "uc1"]

\* GET / (lines 300-368): behind the PIN; with no session and no pending
\* authorization, a device authorization is begun and stored
Home(cookie) ==
    /\ HttpIdle
    /\ IF ~pin.exists \/ cookie # pin.data
       THEN UNCHANGED vars
       ELSE \E session \in GetSession(tokens) :
               /\ IF session.kind = "session"
                  THEN /\ IF session.access_token # tokens.data.access_token
                          THEN /\ events < MaxEvents
                               /\ events' = events + 1
                               /\ tokens' = File([access_token |-> session.access_token])
                          ELSE UNCHANGED <<tokens, events>>
                       /\ UNCHANGED pending
                  ELSE IF session.kind = "raises" \/ pending.exists
                  THEN UNCHANGED <<tokens, events, pending>>
                  ELSE /\ \/ pending' = File(PendingLogin)
                          \/ UNCHANGED pending
                       /\ UNCHANGED <<tokens, events>>
               /\ UNCHANGED <<clock, utc, config, pin, catalog, status, library, nextId, run, runs>>

\* what the provider calls of check_tidal_auth can come to (lines 259-297)
CheckOutcomes == {"success", "login check failed", "expired", "pending", "error"}

\* CheckTidalAuth putting the daily mixes over a selection that is stored
CheckTidalAuthOverSelection(outcome, tok, mixes_ok) ==
    /\ HttpIdle
    /\ IF ~pending.exists
       THEN UNCHANGED vars
       ELSE /\ CASE outcome = "success" ->
                     /\ tokens' = File([access_token |-> tok])
                     /\ pending' = Absent
                     /\ LET cfg == GetConfig(config)
                            daily_ids == DailyIds(Flatten(catalog))
                        IN  IF mixes_ok /\ daily_ids # <<>>
                            THEN config' = File([cfg EXCEPT !.selected_mixes = daily_ids])
                            ELSE UNCHANGED config
                 [] outcome = "expired" ->
                     /\ pending' = Absent
                     /\ UNCHANGED <<tokens, config>>
                 [] OTHER -> UNCHANGED <<tokens, pending, config>>
            /\ UNCHANGED <<clock, utc, pin, catalog, status, library, nextId, run, events, runs>>

\* GET /check_tidal_auth (lines 243-297), given what the link check and the
\* login check come to, the access token of a session that is logged in, and
\* whether session.mixes() answers
CheckTidalAuth(outcome, tok, mixes_ok) ==
    /\ HttpIdle
    /\ IF ~pending.exists
       THEN UNCHANGED vars
       ELSE /\ CASE outcome = "success" ->
                     /\ tokens' = File([access_token |-> tok])
                     /\ pending' = Absent
                     /\ LET cfg == GetConfig(config)
                            daily_ids == DailyIds(Flatten(catalog))
                        IN  IF SelectedOf(cfg) = <<>> /\ mixes_ok /\ daily_ids # <<>>
                            THEN config' = File([cfg EXCEPT !.selected_mixes = daily_ids])
                            ELSE UNCHANGED config
                 [] outcome = "expired" ->
                     /\ pending' = Absent
                     /\ UNCHANGED <<tokens, config>>
                 [] OTHER -> UNCHANGED <<tokens, pending, config>>
            /\ UNCHANGED <<clock, utc, pin, catalog, status, library, nextId, run, events, runs>>

\* Logout without the unlink of PENDING_FILE
LogoutTokensOnly(cookie) ==
    /\ HttpIdle
    /\ IF CheckAuth(pin, cookie)
       THEN /\ tokens' = Absent
            /\ UNCHANGED <<clock, utc, config, pin, pending, catalog, status, library, nextId, run,
                           events, runs>>
       ELSE UNCHANGED vars

\* GET /logout (lines 371-378)
Logout(cookie) ==
    /\ HttpIdle
    /\ IF CheckAuth(pin, cookie)
       THEN /\ tokens' = Absent
            /\ pending' = Absent
            /\ UNCHANGED <<clock, utc, config, pin, catalog, status, library, nextId, run, events, runs>>
       ELSE UNCHANGED vars

\* GET /reset_auth (lines 381-388)
ResetAuth(cookie) ==
    /\ HttpIdle
    /\ IF CheckAuth(pin, cookie)
       THEN /\ pending' = Absent
            /\ UNCHANGED <<clock, utc, tokens, config, pin, catalog, status, library, nextId, run, events, runs>>
       ELSE UNCHANGED vars

\* midnight passes
Tick ==
    /\ events < MaxEvents
    /\ events' = events + 1
    /\ clock' = clock + 1
    /\ UNCHANGED <<utc, tokens, config, pin, pending, catalog, status, library, nextId, run, runs>>

Step(p) ==
    \/ Resolve(p)
    \/ ResolveFails(p)
    \/ ListExisting(p)
    \/ ListExistingFails(p)
    \/ MixStep(p)
    \/ MixFails(p)
    \/ CreatePlaylist(p)
    \/ AddTracks(p)
    \/ Favorite(p)
    \/ ScanList(p)
    \/ ScanDelete(p)
    \/ ScanFails(p)

Next ==
    \/ \E cookie \in Cookies : Quiet /\ Sync(cookie)
    \/ \E cron_key \in CronSecrets, key \in CronKeys : Quiet /\ CronSync(cron_key, key)
    \/ Quiet /\ ScheduledSync
    \/ \E cookie \in Cookies, data \in ConfigRequests : SaveConfigApi(cookie, data)
    \/ \E form_pin \in Pins : LoginSubmit(form_pin)
    \/ Tick
    \/ \E p \in Procs : Step(p)

Spec == Init /\ [][Next]_vars

\* the scheduler's thread takes no notice of the event loop, nor the event
\* loop of it: nothing keeps a perform_sync call of the one from starting
\* while a call of the other is in progress
NextOverlap ==
    \/ \E cookie \in Cookies : Sync(cookie)
    \/ \E cron_key \in CronSecrets, key \in CronKeys : CronSync(cron_key, key)
    \/ ScheduledSync
    \/ \E cookie \in Cookies, data \in ConfigRequests : SaveConfigApi(cookie, data)
    \/ \E form_pin \in Pins : LoginSubmit(form_pin)
    \/ Tick
    \/ \E p \in Procs : Step(p)

SpecOverlap == Init /\ [][NextOverlap]_vars

\* the setting up of an instance: no PIN or a PIN, no tokens or tokens, and
\* one of the mixes pages; the requests of the PIN gate and of the device
\* authorization, and the manual runs that follow
InitSetup ==
    /\ clock = Day0
    /\ utc = 0
    /\ tokens \in {Absent, File([access_token |-> "tokA"])}
    /\ config \in {Absent, File([selected_mixes |-> <<"mixA", "mixB">>, retention_days |-> 7])}
    /\ pin \in {Absent, File("1234")}
    /\ pending = Absent
    /\ catalog \in Catalogs
    /\ status = Absent
    /\ library = LibraryToday
    /\ nextId = Len(library) + 1
    /\ run = [p \in Procs |-> IdleRun]
    /\ events = 0
    /\ runs = 0

NextSetup ==
    \/ \E cookie \in Cookies : Home(cookie)
    \/ \E outcome \in CheckOutcomes, tok \in AccessTokens, mixes_ok \in BOOLEAN :
          CheckTidalAuth(outcome, tok, mixes_ok)
    \/ \E cookie \in Cookies : Logout(cookie)
    \/ \E cookie \in Cookies : ResetAuth(cookie)
    \/ \E form_pin \in FormPins : LoginSubmit(form_pin)
    \/ \E cookie \in Cookies, data \in ConfigRequests : SaveConfigApi(cookie, data)
    \/ \E cookie \in Cookies : Sync(cookie)
    \/ \E p \in Procs : Step(p)

SpecSetup == InitSetup /\ [][NextSetup]_vars

(***************************************************************************)
(* Properties.  Their vocabulary is written without the operators the      *)
(* model of the scan uses: a date prefix is recognised by formatting the   *)
(* days of a window (not by parsing), the marker by comparing subsequences.*)
(***************************************************************************)
\* the days a playlist name of the model can carry
Window == (Day0 - 10)..(Day0 + MaxEvents)

\* the ten characters that stand for each day of the window
IsoOf == [d \in Window |-> IsoFormat(d)]

DatedOn(name, d) == Len(name) >= 10 /\ SubSeq(name, 1, 10) = IsoOf[d]

IsoDates == {IsoOf[d] : d \in Window}

WellFormed(name) == Len(name) >= 10 /\ SubSeq(name, 1, 10) \in IsoDates

HasMarker(pl) ==
    /\ "description" \in DOMAIN pl
    /\ \E k \in 1..Len(pl.description) :
          /\ k + 10 <= Len(pl.description)
          /\ SubSeq(pl.description, k, k + 10) = AutoSynced

\* a snapshot whose date is strictly earlier than the cutoff
ShouldDelete(pl, cutoff) ==
    /\ HasMarker(pl)
    /\ \E d \in Window : DatedOn(pl.name, d) /\ d < cutoff

Gone(lib, pl) == \A k \in 1..Len(lib) : lib[k].id # pl.id

Kept(lib, pl) == \E k \in 1..Len(lib) : lib[k] = pl

\* created, skipped or failed, as status_page tells them apart (lines 513-515)
Kind(r) ==
    IF "success" \in DOMAIN r THEN "created"
    ELSE IF "skipped" \in DOMAIN r THEN "skipped"
    ELSE "failed"

CatalogItems == {MixA, MixB}

InCatalog(id) == \E m \in CatalogItems : m.id = id

ItemOf(id) == CHOOSE m \in CatalogItems : m.id = id

\* r is an outcome perform_sync can record for the selected id on day today
IsOutcomeOf(r, id, today) ==
    IF ~InCatalog(id)
    THEN r = [mix_id |-> id, error |-> "Not found"]
    ELSE \/ Kind(r) = "failed" /\ DOMAIN r = {"mix_id", "error"} /\ r.mix_id = id
         \/ /\ Kind(r) \in {"created", "skipped"}
            /\ r.mix = ItemOf(id).title
            /\ r.playlist = today \o <<" ">> \o ItemOf(id).title
            /\ Kind(r) = "created" => r.tracks = Len(ItemOf(id).tracks)

OutcomesOf(results, selected, today) ==
    /\ Len(results) = Len(selected)
    /\ \A i \in 1..Len(selected) : IsOutcomeOf(results[i], selected[i], today)

MixPcs == {"mix", "create", "add", "favorite"}

ScanPcs == {"scanlist", "scan"}

\* thread p takes a step of its run
Moves(p) == run[p].pc # "idle" /\ run'[p] # run[p]

\* the step ends the run of thread p
Ends(p) == run[p].pc # "idle" /\ run'[p].pc = "idle"

\* the step writes the report of the run of thread p, which gets through its scan
Completes(p) == run[p].pc \in ScanPcs /\ Ends(p) /\ events' = events

\* the list the scan of thread p went through, at the step that ends it
Scanned(p) == IF run[p].pc = "scanlist" THEN library ELSE run[p].scan

\* the run goes on with the id after selected[idx], or with the scan
GoesOn(r, r2) ==
    \/ r.idx < Len(r.selected) /\ r2.pc = "mix" /\ r2.idx = r.idx + 1
    \/ r.idx = Len(r.selected) /\ r2.pc = "scanlist"

(***************************************************************************)
(* C6.  Empty selection.                                                   *)
(***************************************************************************)
\* the config holds no selected mix
NothingSelected == SelectedOf(GetConfig(config)) = <<>>

\* C6: a run that gets a session and finds the selection empty saves the report
\* with the error "No mixes selected", no results and deleted_count 0, ends at
\* once (so that it makes no call of the provider: no resolve, no listing), and
\* the playlists stay as they were; no run in progress has an empty selection
C6_EmptySelection ==
    /\ [](\A p \in Procs : run[p].pc # "idle" => run[p].selected # <<>>)
    /\ [][\A p \in Procs, trigger \in {"manual", "scheduled"}, tok \in AccessTokens :
            (BeginSync(p, trigger, Session(tok)) /\ NothingSelected)
            => /\ status' = File([last_sync |-> utc + 1, trigger |-> trigger,
                                  results |-> <<>>, deleted_count |-> 0,
                                  error |-> "No mixes selected"])
               /\ run' = run
               /\ library' = library]_vars

\* a report "No mixes selected" is stored, the playlists are untouched
C6_Witness ==
    /\ status.exists
    /\ status.data.error = "No mixes selected"
    /\ tokens.exists
    /\ library \in InitLibraries

(***************************************************************************)
(* C7.  Not connected.                                                     *)
(***************************************************************************)
\* C7: a run for which get_session returns None (no tokens stored, or the
\* tokens do not load) saves the report with the error "Not connected to
\* Tidal" and no results, whatever the selection is, ends at once and leaves
\* the playlists as they were
C7_NotConnected ==
    [][\A p \in Procs, trigger \in {"manual", "scheduled"} :
          BeginSync(p, trigger, NoSession)
          => /\ status' = File([last_sync |-> utc + 1, trigger |-> trigger,
                                results |-> <<>>, deleted_count |-> 0,
                                error |-> "Not connected to Tidal"])
             /\ run' = run
             /\ library' = library]_vars

\* without tokens and with an empty selection the report says "Not connected"
C7_Witness ==
    /\ ~tokens.exists
    /\ NothingSelected
    /\ status.exists
    /\ status.data.error = "Not connected to Tidal"
    /\ status.data.results = <<>>

(***************************************************************************)
(* C9.  Config clamp.                                                      *)
(***************************************************************************)
\* C9: the stored retention_days is always within 1..365, and a save stores
\* the requested value brought into that range: 1 for 0, 365 for 9000
C9_ConfigClamp ==
    /\ [](config.exists => config.data.retention_days \in 1..365)
    /\ [][\A cookie \in Cookies, data \in ConfigRequests :
            (events' # events /\ SaveConfigApi(cookie, data) /\ CheckAuth(pin, cookie)
               /\ "retention_days" \in DOMAIN data)
            => config'.data.retention_days =
                  (IF data.retention_days = 0 THEN 1
                   ELSE IF data.retention_days = 9000 THEN 365
                   ELSE IF data.retention_days < 1 THEN 1
                   ELSE IF data.retention_days > 365 THEN 365
                   ELSE data.retention_days)]_vars

\* a save of 9000 has stored 365
C9_Witness == config.exists /\ config.data.retention_days = 365

(***************************************************************************)
(* C10.  One outcome per selected id, in order.                            *)
(***************************************************************************)
\* C10: while a run works through the selection, results holds the outcomes of
\* the ids before the current one, in their order; from the scan on, and in
\* the report the run saves, results holds one outcome per selected id, the
\* i-th being that of the i-th id
C10_OutcomeOrder ==
    /\ [](\A p \in Procs :
             /\ run[p].pc \in MixPcs
                => OutcomesOf(run[p].results,
                              SubSeq(run[p].selected, 1, run[p].idx - 1), run[p].today)
             /\ run[p].pc \in ScanPcs
                => OutcomesOf(run[p].results, run[p].selected, run[p].today))
    /\ [][\A p \in Procs :
            (run[p].pc \in ScanPcs /\ Ends(p))
            => /\ status'.data.error = None
               /\ OutcomesOf(status'.data.results, run[p].selected, run[p].today)]_vars

\* a report with a failed and a skipped outcome for the selection mixX, mixA
C10_Witness ==
    /\ status.exists
    /\ Len(status.data.results) = 2
    /\ status.data.results[1] = [mix_id |-> "mixX", error |-> "Not found"]
    /\ Kind(status.data.results[2]) = "skipped"

(***************************************************************************)
(* C2.  Partial-failure isolation.                                         *)
(***************************************************************************)
\* C2: while a run works through the selection, no step ends it; a step in
\* which the provider raises, or which finds the id missing from the catalog,
\* appends the failed outcome of the current id and the run goes on with the
\* next id (or with the scan after the last)
C2_Isolation ==
    [][\A p \in Procs :
          (run[p].pc \in MixPcs /\ Moves(p))
          => LET r == run[p]
                 id == r.selected[r.idx]
             IN  /\ run'[p].pc \in MixPcs \cup {"scanlist"}
                 /\ events' # events
                    => /\ run'[p].results = Append(r.results, [mix_id |-> id, error |-> ProviderError])
                       /\ GoesOn(r, run'[p])
                 /\ (r.pc = "mix" /\ ~InCatalog(id))
                    => /\ run'[p].results = Append(r.results, [mix_id |-> id, error |-> "Not found"])
                       /\ GoesOn(r, run'[p])]_vars

\* the first mix failed on an exception and the second was created
C2_Witness ==
    /\ status.exists
    /\ Len(status.data.results) = 2
    /\ status.data.results[1] = [mix_id |-> "mixA", error |-> ProviderError]
    /\ Kind(status.data.results[2]) = "created"
    /\ \E k \in 1..Len(library) :
          library[k].name = IsoFormat(clock) \o <<" ">> \o Bar /\ library[k].favorite

(***************************************************************************)
(* C8.  The report is replaced by every run.                               *)
(***************************************************************************)
\* C8, for the upstream failures it names (a run past its two preconditions):
\* every step that ends such a run writes a new report, the run's own
C8_ReportReplaced ==
    [][\A p \in Procs :
          Ends(p) => /\ status'.exists
                     /\ status'.data.last_sync = utc + 1
                     /\ status'.data.trigger = run[p].trigger]_vars

(***************************************************************************)
(* C3.  Retention boundary.                                                *)
(***************************************************************************)
\* C3: the cutoff of a run is the date at the end of its loop over the
\* selection minus its retention_days.  Of the playlists the scan has gone
\* past, and of all the playlists of a scan that gets to its end, the ones
\* deleted are exactly the marked ones dated strictly before the cutoff; with
\* the cutoff 2024-03-10 minus 7 days, "2024-03-02 Foo" is deleted and
\* "2024-03-03 Foo" is kept
C3_RetentionBoundary ==
    /\ [](\A p \in Procs :
             run[p].pc = "scan"
             => \A k \in 1..(run[p].j - 1) :
                   Gone(library, run[p].scan[k]) <=> ShouldDelete(run[p].scan[k], run[p].cutoff))
    /\ [][\A p \in Procs :
            /\ (run[p].pc \in MixPcs /\ run'[p].pc = "scanlist")
               => run'[p].cutoff = clock - run[p].retention
            /\ Completes(p)
               => \A k \in 1..Len(Scanned(p)) :
                     LET pl == Scanned(p)[k]
                     IN  /\ Gone(library', pl) <=> ShouldDelete(pl, run[p].cutoff)
                         /\ (run[p].cutoff = Ymd2Ord(2024, 3, 10) - 7 /\ HasMarker(pl))
                            => /\ pl.name = D20240302 \o Space \o Foo => Gone(library', pl)
                               /\ pl.name = D20240303 \o Space \o Foo => Kept(library', pl)]_vars

\* on 2024-03-10 with 7 days of retention a run has finished: of the library
\* of the examples, the snapshot of 03-02 is gone and that of 03-03 is there
C3_Witness ==
    /\ clock = Ymd2Ord(2024, 3, 10)
    /\ events = 0
    /\ RetentionOf(GetConfig(config)) = 7
    /\ status.exists
    /\ status.data.deleted_count = 1
    /\ \A k \in 1..Len(library) : library[k].name # D20240302 \o Space \o Foo
    /\ \E k \in 1..Len(library) : library[k].name = D20240303 \o Space \o Foo

(***************************************************************************)
(* C4.  The marker guards the user's playlists.                            *)
(***************************************************************************)
\* C4: no step removes or changes a playlist whose description lacks
\* "Auto-synced", whatever its name and the retention are
C4_MarkerGuard ==
    [][\A k \in 1..Len(library) :
          (library' # library /\ ~HasMarker(library[k])) => Kept(library', library[k])]_vars

\* a scan with a cutoff after 2024-03-01 has deleted a snapshot, and the
\* user's "2024-03-01 My Party Mix" is still there
C4_Witness ==
    /\ status.exists
    /\ status.data.deleted_count >= 1
    /\ \E k \in 1..Len(library) :
          /\ DatedOn(library[k].name, Ymd2Ord(2024, 3, 1))
          /\ ~HasMarker(library[k])

(***************************************************************************)
(* C5.  Names that are no dates.                                           *)
(***************************************************************************)
\* C5: no step removes a playlist whose name does not start with a date, and
\* a scan that gets to its end has deleted every marked playlist dated before
\* the cutoff that comes after such a playlist in the list
C5_MalformedNames ==
    [][/\ \A k \in 1..Len(library) :
             ~WellFormed(library[k].name) => Kept(library', library[k])
       /\ \A p \in Procs :
             Completes(p)
             => \A k1, k2 \in 1..Len(Scanned(p)) :
                   (k1 < k2 /\ ~WellFormed(Scanned(p)[k1].name)
                      /\ ShouldDelete(Scanned(p)[k2], run[p].cutoff))
                   => Gone(library', Scanned(p)[k2])]_vars

\* a scan is over: "2024-13-01 Foo" and "24-3-1 x", both marked, are there,
\* and "2024-03-02 Foo", which came after them, is gone
C5_Witness ==
    /\ status.exists
    /\ status.data.deleted_count >= 1
    /\ \E k \in 1..Len(library) :
          library[k].name = <<"2", "0", "2", "4", "-", "1", "3", "-", "0", "1", " ", "F", "o", "o">>
    /\ \E k \in 1..Len(library) :
          library[k].name = <<"2", "4", "-", "3", "-", "1", " ", "x">>
    /\ \A k \in 1..Len(library) : library[k].name # D20240302 \o Space \o Foo

(***************************************************************************)
(* C1.  Idempotence.  Runs do not overlap under Spec, and only runs change *)
(* the playlists, so the report in the status file when a run ends is that *)
(* of the run before it, and the provider's state in between is what that  *)
(* run left.                                                               *)
(***************************************************************************)
\* the stored report is of a run that got through, with the selection and on
\* the day of the run of thread p
SameRunBefore(p) ==
    /\ status.exists
    /\ status.data.error = None
    /\ OutcomesOf(status.data.results, run[p].selected, run[p].today)

\* C1 as claimed: a run that follows a run with the same selection on the same
\* day reports skipped for every selected id
C1_AllSkipped ==
    [][\A p \in Procs :
          (Completes(p) /\ SameRunBefore(p) /\ clock = Day0)
          => \A i \in 1..Len(status'.data.results) :
                Kind(status'.data.results[i]) = "skipped"]_vars

\* C1 as amended: such a run reports skipped, with the same playlist name, for
\* every id the run before reported created or skipped, and "Not found" again
\* for every id the run before did not find
C1_Idempotent ==
    [][\A p \in Procs :
          (Completes(p) /\ SameRunBefore(p))
          => \A i \in 1..Len(run[p].selected) :
                LET before == status.data.results[i]
                    after == status'.data.results[i]
                IN  /\ Kind(before) \in {"created", "skipped"}
                       => Kind(after) = "skipped" /\ after.playlist = before.playlist
                    /\ before = [mix_id |-> run[p].selected[i], error |-> "Not found"]
                       => after = before]_vars

\* the second run of a day has reported skipped for both mixes, the first
\* having created the snapshot of Bar
C1_Witness ==
    /\ runs = 2
    /\ utc = 2
    /\ status.exists
    /\ Len(status.data.results) = 2
    /\ \A i \in 1..2 : Kind(status.data.results[i]) = "skipped"
    /\ \E k \in 1..Len(library) :
          /\ library[k].name = IsoFormat(clock) \o <<" ">> \o Bar
          /\ library[k].tracks = MixB.tracks

(***************************************************************************)
(* C11.  The race of two runs, under SpecOverlap.                          *)
(***************************************************************************)
\* the calls of lines 139-142 for one mix
CreatePcs == {"create", "add", "favorite"}

\* C11: nothing stands between the duplicate guard and the create.  A run
\* that is creating the playlist of a mix has passed the guard on its own
\* snapshot, the snapshot stays as it was taken for the whole loop, and the
\* create adds a playlist whatever the names of the library are by then
C11_NoLock ==
    /\ [](\A p \in Procs :
             run[p].pc \in CreatePcs => run[p].name \notin run[p].existing_names)
    /\ [][\A p \in Procs :
            /\ (run[p].pc \in MixPcs /\ run'[p].pc \in MixPcs)
               => run'[p].existing_names = run[p].existing_names
            /\ (run[p].pc = "create" /\ run'[p].pc = "add")
               => /\ library' = Append(library, Playlist(nextId, run[p].name, CreatedDescription))
                  /\ run'[p].playlist = nextId]_vars

\* the manual and the scheduled run took the same snapshot, both passed the
\* guard for the same mix, and each has created its playlist of the one name
C11_Witness ==
    LET h == run["http"]
        c == run["sched"]
    IN  /\ h.pc \in {"add", "favorite"}
        /\ c.pc \in {"add", "favorite"}
        /\ h.selected[h.idx] = c.selected[c.idx]
        /\ h.name = c.name
        /\ h.existing_names = c.existing_names
        /\ h.playlist # c.playlist
        /\ \E k1, k2 \in 1..Len(library) :
              /\ library[k1].id = h.playlist /\ library[k1].name = h.name
              /\ library[k2].id = c.playlist /\ library[k2].name = h.name

(***************************************************************************)
(* C12.  A run and the snapshots it has created.                           *)
(***************************************************************************)
\* the run of thread p has created pl: it reports a created playlist of that
\* name, and the name was not in the snapshot it took before its loop
CreatedBy(p, pl) ==
    /\ pl.name \notin run[p].existing_names
    /\ \E i \in 1..Len(run[p].results) :
          /\ Kind(run[p].results[i]) = "created"
          /\ run[p].results[i].playlist = pl.name

\* C12: no step of the scan of a run deletes a playlist the run has created
C12_NotPrunedByCreator ==
    [][\A p \in Procs :
          run[p].pc \in ScanPcs
          => \A k \in 1..Len(library) :
                CreatedBy(p, library[k]) => ~Gone(library', library[k])]_vars

(***************************************************************************)
(* C19.  The day of the cutoff.                                            *)
(***************************************************************************)
\* C19: the cutoff a run computes at the end of its loop is the day of its
\* playlist names minus its retention_days
C19_CutoffFromToday ==
    [][\A p \in Procs :
          (run[p].pc \in MixPcs /\ run'[p].pc = "scanlist")
          => IsoFormat(run'[p].cutoff + run[p].retention) = run[p].today]_vars

(***************************************************************************)
(* C13.  The trigger of a report.                                          *)
(***************************************************************************)
\* C13: the trigger of the stored report is "manual", "scheduled" or
\* "externalCron"
C13_TriggerLabel ==
    status.exists => status.data.trigger \in {"manual", "scheduled", "externalCron"}

(***************************************************************************)
(* C14.  What a created outcome stands for.                                *)
(***************************************************************************)
\* the playlist of the library lib that has the id
PlaylistOf(lib, id) == lib[CHOOSE k \in 1..Len(lib) : lib[k].id = id]

\* the id the loop of thread p is at
CurrentId(p) == run[p].selected[run[p].idx]

\* C14: the calls for a mix come in the order fetch, create, add, favorite.
\* The create makes an empty playlist named "<today> <title>" with the
\* marker; the add gives it the tracks of the mix in their order; a created
\* outcome is recorded by the step that favorites it, and then the playlist
\* has name, marker, tracks and favorite, and the outcome its track count
C14_CreatedContent ==
    [][\A p \in Procs :
          LET r == run[p]
              r2 == run'[p]
          IN  /\ (Moves(p) /\ r2.pc = "create")
                 => r.pc = "mix" /\ r2.tracks = ItemOf(CurrentId(p)).tracks /\ library' = library
              /\ (Moves(p) /\ r2.pc = "add")
                 => /\ r.pc = "create"
                    /\ Gone(library, [id |-> r2.playlist])
                    /\ LET pl == PlaylistOf(library', r2.playlist)
                       IN  /\ pl.name = r.today \o <<" ">> \o ItemOf(CurrentId(p)).title
                           /\ HasMarker(pl)
                           /\ pl.tracks = <<>>
                           /\ ~pl.favorite
              /\ (Moves(p) /\ r2.pc = "favorite")
                 => /\ r.pc = "add"
                    /\ PlaylistOf(library', r.playlist) =
                          [PlaylistOf(library, r.playlist) EXCEPT !.tracks = ItemOf(CurrentId(p)).tracks]
              /\ (Len(r2.results) = Len(r.results) + 1 /\ Kind(r2.results[Len(r2.results)]) = "created")
                 => /\ r.pc = "favorite"
                    /\ LET pl == PlaylistOf(library', r.playlist)
                           out == r2.results[Len(r2.results)]
                       IN  /\ pl.name = r.today \o <<" ">> \o ItemOf(CurrentId(p)).title
                           /\ HasMarker(pl)
                           /\ pl.tracks = ItemOf(CurrentId(p)).tracks
                           /\ pl.favorite
                           /\ out.playlist = pl.name
                           /\ out.tracks = Len(ItemOf(CurrentId(p)).tracks)]_vars

\* the example of the specification: a manual run has reported one created
\* outcome with three tracks, and the playlist of 2024-03-10 holds the three
\* tracks of the mix in their order and is a favorite
C14_Witness ==
    /\ status.exists
    /\ status.data.trigger = "manual"
    /\ \E i \in 1..Len(status.data.results) :
          /\ Kind(status.data.results[i]) = "created"
          /\ status.data.results[i].tracks = 3
          /\ status.data.results[i].playlist = D20240310 \o Space \o Foo
    /\ \E k \in 1..Len(library) :
          /\ library[k].name = D20240310 \o Space \o Foo
          /\ library[k].tracks = MixA.tracks
          /\ library[k].favorite
          /\ HasMarker(library[k])

(***************************************************************************)
(* C15.  What a configuration save changes.                                *)
(***************************************************************************)
\* the configuration in force: the stored one, or the default when none is
StoredConfig ==
    IF config.exists THEN config.data
    ELSE [selected_mixes |-> <<>>, retention_days |-> 7]

\* C15: an authenticated save stores, for each of the two keys, the value of
\* the request when the request has the key (the retention brought into
\* 1..365) and the value in force before when it has not, and nothing else;
\* a save without the PIN changes nothing
C15_ConfigFrame ==
    [][\A cookie \in Cookies, data \in ConfigRequests :
          ((events' # events \/ config' # config) /\ SaveConfigApi(cookie, data))
          => IF pin.exists /\ cookie # pin.data THEN config' = config
             ELSE /\ config'.exists
                  /\ DOMAIN config'.data = {"selected_mixes", "retention_days"}
                  /\ config'.data.selected_mixes =
                        (IF "selected_mixes" \in DOMAIN data
                         THEN data.selected_mixes ELSE StoredConfig.selected_mixes)
                  /\ IF "retention_days" \in DOMAIN data
                     THEN /\ config'.data.retention_days \in 1..365
                          /\ data.retention_days \in 1..365
                             => config'.data.retention_days = data.retention_days
                     ELSE config'.data.retention_days = StoredConfig.retention_days]_vars

\* a request with retention_days alone has left the selection as it was, and
\* a request with selected_mixes alone has left the retention as it was
C15_Witness ==
    /\ config.exists
    /\ \/ /\ config.data.selected_mixes = <<"mixX", "mixA">>
          /\ config.data.retention_days = 8
       \/ /\ config.data.selected_mixes = <<>>
          /\ config.data.retention_days = 1

(***************************************************************************)
(* C16.  A provider call of the scan raises.                               *)
(***************************************************************************)
\* the step ends the run of thread p at a call of its scan that raises
ScanGivenUp(p) == run[p].pc \in ScanPcs /\ Ends(p) /\ events' = events + 1

\* how many playlists of the list the scan of thread p went through are gone
GoneOf(p, lib) ==
    IF run[p].pc = "scanlist" THEN 0
    ELSE Cardinality({k \in 1..Len(run[p].scan) : Gone(lib, run[p].scan[k])})

\* C16: every step that ends a run in its scan writes the report of the run.
\* When the list call or a delete of the scan raises, the report has the
\* results of the loop as they were, no error, and a deleted_count that is
\* the number of playlists the scan had deleted by then; these stay deleted
\* and no other playlist is touched
C16_ScanFailureSwallowed ==
    [][\A p \in Procs :
          /\ (run[p].pc \in ScanPcs /\ Ends(p))
             => status'.exists /\ status'.data.last_sync = utc + 1
          /\ ScanGivenUp(p)
             => /\ status'.data.results = run[p].results
                /\ status'.data.error = None
                /\ status'.data.trigger = run[p].trigger
                /\ status'.data.deleted_count = GoneOf(p, library')
                /\ library' = library]_vars

\* with one day of retention the scan has deleted "2024-03-02 Foo", the
\* delete of "2024-03-03 Foo" has raised, and the report has both outcomes of
\* the loop, no error and a deleted_count of one
C16_Witness ==
    /\ events = 1
    /\ clock = Day0
    /\ config = File([selected_mixes |-> <<"mixX", "mixA">>, retention_days |-> 1])
    /\ tokens = File([access_token |-> "tokA"])
    /\ status.exists
    /\ status.data.error = None
    /\ status.data.deleted_count = 1
    /\ Len(status.data.results) = 2
    /\ Kind(status.data.results[2]) = "created"
    /\ \A k \in 1..Len(library) : library[k].name # D20240302 \o Space \o Foo
    /\ \E k \in 1..Len(library) : library[k].name = D20240303 \o Space \o Foo

(***************************************************************************)
(* C17.  Names of the library when runs do not overlap (Spec).             *)
(***************************************************************************)
\* C17: no two playlists of the library have the same name
C17_NoDuplicateNames ==
    \A k1, k2 \in 1..Len(library) :
        library[k1].name = library[k2].name => k1 = k2

(***************************************************************************)
(* C18.  A run after a run in which a call for a mix has failed.           *)
(***************************************************************************)
\* no outcome of the results is that of a provider call that raised
NoCallFailed(results) ==
    \A n \in 1..Len(results) :
        Kind(results[n]) = "failed" => results[n].error = "Not found"

\* C18: when the report of the run before has a failed outcome of a provider
\* call for a mix, a run of the same day that selects the mix and ends without
\* a failed call leaves a favorite playlist of the day's name for the mix that
\* holds the tracks of the mix
C18_Recovery ==
    [][\A p \in Procs :
          (Completes(p) /\ clock = Day0 /\ status.exists /\ NoCallFailed(run[p].results))
          => \A i \in 1..Len(status.data.results), j \in 1..Len(run[p].selected) :
                LET id == run[p].selected[j]
                IN  (InCatalog(id) /\ status.data.results[i] = [mix_id |-> id, error |-> ProviderError])
                    => \E k \in 1..Len(library') :
                          /\ library'[k].name = run[p].today \o <<" ">> \o ItemOf(id).title
                          /\ library'[k].tracks = ItemOf(id).tracks
                          /\ library'[k].favorite]_vars

(***************************************************************************)
(* C20.  The date prefix of the playlists of a run.                        *)
(***************************************************************************)
\* the first ten characters of a playlist name
Prefix(name) == SubSeq(name, 1, 10)

\* C20: today of a run is the date at the moment the catalog is resolved and
\* stays what it is to the end of the run; every playlist the run creates
\* and every name it reports has today as its first ten characters
C20_SharedPrefix ==
    /\ [](\A p \in Procs : \A i \in 1..Len(run[p].results) :
             Kind(run[p].results[i]) \in {"created", "skipped"}
             => Prefix(run[p].results[i].playlist) = run[p].today)
    /\ [][\A p \in Procs :
            /\ (run[p].pc = "resolve" /\ run'[p].pc = "list")
               => run'[p].today = IsoOf[clock]
            /\ (run[p].pc \notin {"idle", "resolve"} /\ run'[p].pc # "idle")
               => run'[p].today = run[p].today
            /\ (run[p].pc = "create" /\ run'[p].pc = "add")
               => /\ Len(library') = Len(library) + 1
                  /\ Prefix(library'[Len(library')].name) = run[p].today]_vars

\* midnight has passed since a run computed today as 2024-03-10, and the run
\* has created two playlists, both with the prefix 2024-03-10
C20_Witness ==
    \E p \in Procs :
        /\ run[p].pc \in ScanPcs
        /\ clock > Day0
        /\ run[p].today = D20240310
        /\ \E k1, k2 \in 1..Len(library) :
              /\ k1 < k2
              /\ CreatedBy(p, library[k1]) /\ Prefix(library[k1].name) = D20240310
              /\ CreatedBy(p, library[k2]) /\ Prefix(library[k2].name) = D20240310
              /\ library[k1].name # library[k2].name

(***************************************************************************)
(* C26.  The gate of the cron entry point.                                 *)
(***************************************************************************)
\* C26: a request to /cron/sync with no secret set, with an empty secret or
\* with a key that is not the secret starts no run and leaves the playlists
\* and the stored report as they are; with the secret set and the key equal
\* to it, a perform_sync call is started
C26_CronGate ==
    [][\A cron_key \in CronSecrets, key \in CronKeys :
          CronSync(cron_key, key)
          => IF cron_key = CronSecret /\ key = CronSecret
             THEN runs' = runs + 1
             ELSE UNCHANGED <<runs, run, library, status, utc>>]_vars

\* a run started by /cron/sync has got through and saved its report
C26_Witness ==
    /\ status.exists
    /\ status.data.trigger = "cron"
    /\ status.data.error = None
    /\ Len(status.data.results) > 0

(***************************************************************************)
(* C21.  The status file under overlapping runs (SpecOverlap).             *)
(***************************************************************************)
\* C21: every change of the status file stores one whole report with a new
\* timestamp: that of the one run that ends at the step, with the trigger,
\* the results and the number of deletions of that run, or that of a call
\* that ends at its tests of the session and the selection; the run of the
\* other thread has no part in it and goes on unchanged
C21_LastWriterWins ==
    [][status' # status
       => /\ status'.exists
          /\ DOMAIN status'.data = {"last_sync", "trigger", "results", "deleted_count", "error"}
          /\ status'.data.last_sync = utc + 1
          /\ \/ \E p \in Procs :
                   /\ run[p].pc \in ScanPcs /\ Ends(p)
                   /\ \A q \in Procs \ {p} : run'[q] = run[q]
                   /\ status'.data.trigger = run[p].trigger
                   /\ status'.data.results = run[p].results
                   /\ status'.data.error = None
                   /\ status'.data.deleted_count =
                         Len(run[p].deleted) + (IF library' # library THEN 1 ELSE 0)
             \/ /\ run' = run
                /\ runs' = runs + 1
                /\ status'.data.results = <<>>
                /\ status'.data.deleted_count = 0
                /\ status'.data.error \in {"Not connected to Tidal", "No mixes selected"}]_vars

\* the manual and the scheduled run have overlapped (each has created its own
\* "2024-03-10 Bar") and both have saved; the file holds the report of the
\* scheduled run, which saved last
C21_Witness ==
    /\ Quiet
    /\ runs = 2
    /\ utc = 2
    /\ status.exists
    /\ status.data.trigger = "scheduled"
    /\ status.data.last_sync = 2
    /\ Len(status.data.results) = 2
    /\ Kind(status.data.results[2]) = "created"
    /\ \E k1, k2 \in 1..Len(library) :
          /\ k1 < k2
          /\ library[k1].name = D20240310 \o Space \o Bar
          /\ library[k2].name = D20240310 \o Space \o Bar
          /\ library[k1].tracks = MixB.tracks
          /\ library[k2].tracks = MixB.tracks

(***************************************************************************)
(* C22.  The catalog a run builds (SpecSetup, over the mixes pages).       *)
(***************************************************************************)
\* the places of the items of the mixes page: category and index within it
Places(cats) ==
    UNION {{<<c, i>> : i \in 1..Len(cats[c].items)} :
              c \in {c \in 1..Len(cats) : "items" \in DOMAIN cats[c]}}

ItemAt(cats, pl) == cats[pl[1]].items[pl[2]]

Before(pl1, pl2) == pl1[1] < pl2[1] \/ (pl1[1] = pl2[1] /\ pl1[2] < pl2[2])

\* the places of the items that have the id
PlacesOf(cats, id) ==
    {pl \in Places(cats) : "id" \in DOMAIN ItemAt(cats, pl) /\ ItemAt(cats, pl).id = id}

\* C22: the step at which session.mixes() answers builds all_mixes with one
\* entry for every id some item of some category carries, and no other: the
\* item of that id that comes last on the page.  Categories without items
\* and items without an id have no part in it
C22_CatalogResolution ==
    [][\A p \in Procs :
          (run[p].pc = "resolve" /\ run'[p].pc = "list")
          => LET all_mixes == run'[p].all_mixes
             IN  /\ DOMAIN all_mixes = {ItemAt(catalog, pl).id :
                                            pl \in {q \in Places(catalog) :
                                                       "id" \in DOMAIN ItemAt(catalog, q)}}
                 /\ \A id \in DOMAIN all_mixes :
                       \E pl \in PlacesOf(catalog, id) :
                          /\ all_mixes[id] = ItemAt(catalog, pl)
                          /\ \A other \in PlacesOf(catalog, id) : ~Before(pl, other)]_vars

\* a run has resolved a page that has two items of the id mixA, an item
\* without an id and a category without items: mixA stands for the later
\* item, and the catalog has the two ids of the page
C22_Witness ==
    \E p \in Procs :
        /\ run[p].pc \in MixPcs
        /\ catalog = CatalogTwice
        /\ run[p].all_mixes["mixA"] = MixA2
        /\ DOMAIN run[p].all_mixes = {"mixA", "mixB"}

(***************************************************************************)
(* C23.  The daily mixes as the first selection (SpecSetup).               *)
(***************************************************************************)
\* the title has "daily" in it, in whatever case
IsDaily(title) ==
    \E k \in 1..(Len(title) - 4) :
        /\ title[k] \in {"d", "D"}
        /\ title[k + 1] \in {"a", "A"}
        /\ title[k + 2] \in {"i", "I"}
        /\ title[k + 3] \in {"l", "L"}
        /\ title[k + 4] \in {"y", "Y"}

\* the places of the items of the page that have an id and a daily title
DailyPlaces ==
    {pl \in Places(catalog) :
        LET item == ItemAt(catalog, pl)
        IN  "id" \in DOMAIN item /\ "title" \in DOMAIN item /\ IsDaily(item.title)}

\* sel is the ids of the daily items in the order of the page
IsDailySelection(sel) ==
    /\ Len(sel) = Cardinality(DailyPlaces)
    /\ \A i \in 1..Len(sel) :
          \E pl \in DailyPlaces :
             /\ ItemAt(catalog, pl).id = sel[i]
             /\ Cardinality({q \in DailyPlaces : Before(q, pl)}) = i - 1

\* C23: a check of a pending authorization changes the config file only when
\* it succeeds, the selection in force is empty and the page has a daily mix:
\* it then stores the ids of the daily mixes as the selection and the
\* retention in force, and it does so whenever session.mixes() answers.  A
\* selection that is not empty stays.  A run takes its selection from the
\* config and goes through every selected id, daily or not
C23_DailyPreselection ==
    [][/\ (pending.exists /\ config' # config)
          => \A outcome \in CheckOutcomes, tok \in AccessTokens, mixes_ok \in BOOLEAN :
                CheckTidalAuth(outcome, tok, mixes_ok)
                => /\ outcome = "success"
                   /\ StoredConfig.selected_mixes = <<>>
                   /\ DailyPlaces # {}
                   /\ DOMAIN config'.data = {"selected_mixes", "retention_days"}
                   /\ IsDailySelection(config'.data.selected_mixes)
                   /\ config'.data.retention_days = StoredConfig.retention_days
       /\ (pending.exists /\ StoredConfig.selected_mixes = <<>>)
          => \A tok \in AccessTokens :
                (CheckTidalAuth("success", tok, TRUE) /\ DailyPlaces # {})
                => config'.exists /\ IsDailySelection(config'.data.selected_mixes)
       /\ \A p \in Procs :
             /\ (run[p].pc = "idle" /\ run'[p].pc = "resolve")
                => run'[p].selected = StoredConfig.selected_mixes
             /\ (run[p].pc = "mix" /\ Moves(p))
                => \/ run'[p].pc = "create" /\ run'[p].idx = run[p].idx
                   \/ Len(run'[p].results) = run[p].idx]_vars

\* the authorization of an instance without a config has been completed on
\* the page with "My Daily": the config holds that mix and 7 days
C23_Witness ==
    /\ config = File([selected_mixes |-> <<"mixD">>, retention_days |-> 7])
    /\ catalog = CatalogDaily
    /\ tokens.exists
    /\ ~pending.exists

(***************************************************************************)
(* C24.  Tokens and the pending authorization (SpecSetup), at the steps    *)
(* that are no part of a perform_sync call.                                *)
(***************************************************************************)
\* the step neither starts a perform_sync call nor belongs to one
NoSync == runs' = runs /\ run' = run

\* what a check with this outcome leaves of the tokens and of the pending
\* authorization
CheckLeaves(outcome) ==
    /\ outcome = "pending" => pending' = pending /\ tokens' = tokens
    /\ outcome = "expired" => ~pending'.exists /\ tokens' = tokens
    /\ outcome = "success" => tokens'.exists /\ ~pending'.exists
    /\ outcome \in {"login check failed", "error"}
       => pending' = pending /\ tokens' = tokens

\* a check of a pending authorization leaves what CheckLeaves says, and a
\* logout behind the PIN leaves neither tokens nor pending authorization (a
\* step that leaves anything else is no such check and no such logout)
ChecksAndLogout ==
    /\ pending.exists
       => \A outcome \in CheckOutcomes :
             ~CheckLeaves(outcome)
             => \A tok \in AccessTokens, mixes_ok \in BOOLEAN :
                   ~CheckTidalAuth(outcome, tok, mixes_ok)
    /\ \A cookie \in Cookies :
          ((~pin.exists \/ cookie = pin.data) /\ (tokens'.exists \/ pending'.exists))
          => ~Logout(cookie)

\* C24 as claimed: the tokens file is written only by a step that removes the
\* pending authorization
C24_TokensOnlyByCheck ==
    [][NoSync
       => /\ (tokens' # tokens /\ tokens'.exists) => (pending.exists /\ ~pending'.exists)
          /\ ChecksAndLogout]_vars

\* C24 as amended: the tokens file is written by a step that removes the
\* pending authorization, or rewritten, where tokens are stored, by a home
\* request behind the PIN that leaves the pending record alone (get_session
\* stores a refreshed access token); tokens come to be stored where none were
\* only by a step that removes the pending authorization, and a pending
\* record comes to be stored only where no tokens change
C24_DeviceFlow ==
    [][NoSync
       => /\ (tokens' # tokens /\ tokens'.exists)
             => \/ pending.exists /\ ~pending'.exists
                \/ /\ tokens.exists /\ pin.exists /\ pending' = pending
                   /\ \E cookie \in Cookies : cookie = pin.data /\ Home(cookie)
          /\ (~tokens.exists /\ tokens'.exists) => (pending.exists /\ ~pending'.exists)
          /\ (~pending.exists /\ pending'.exists) => tokens' = tokens
          /\ ChecksAndLogout]_vars

\* a check has succeeded: the tokens of the new session are stored (no token
\* has been refreshed, no config saved) and no authorization is pending
C24_Witness ==
    /\ events = 0
    /\ tokens = File([access_token |-> "tokB"])
    /\ ~pending.exists

(***************************************************************************)
(* C25.  The PIN gate (SpecSetup).                                         *)
(***************************************************************************)
\* what a request that is turned away at the gate leaves as it is
Guarded == <<runs, run, config, tokens, pending, status, library>>

\* C25: a stored PIN stays as it is; a PIN comes to be stored only where none
\* is, and it is one a login form has sent, never the empty one.  With a PIN
\* stored, a request to /sync, POST /api/config, /logout or /reset_auth with
\* another cookie, or with none, starts no run and changes neither config,
\* tokens nor pending authorization (no step that changes one of them is
\* such a request)
C25_PinGate ==
    [][/\ pin.exists => pin' = pin
       /\ pin' # pin => (pin'.exists /\ pin'.data \in FormPins \ {""})
       /\ (pin.exists /\ Guarded' # Guarded)
          => \A cookie \in Cookies \ {pin.data} :
                /\ ~Sync(cookie)
                /\ ~Logout(cookie)
                /\ ~ResetAuth(cookie)
                /\ \A data \in ConfigRequests : ~SaveConfigApi(cookie, data)]_vars

\* the login form has stored the PIN 0000 on an instance that had none, and a
\* manual run has got through the gate since
C25_Witness ==
    /\ pin = File("0000")
    /\ status.exists
    /\ status.data.trigger = "manual"
    /\ runs >= 1

====
